---- MODULE Spec2Model ----
(***************************************************************************)
(* Model of the egui-demo presentation engine (src/main.rs): struct        *)
(* Engine, its methods new / resize / input / draw_ui / update / render,   *)
(* and the closure main() hands to the winit event loop.                   *)
(*                                                                         *)
(* The closure runs to completion for one event at a time on one thread,   *)
(* so every arm of its outer match is one action.  The collaborators       *)
(* (winit window, wgpu device / queue / swap chain, egui instance and      *)
(* render pass) are kept as the observable state their calls leave behind. *)
(***************************************************************************)
EXTENDS Integers, Sequences, FiniteSets, TLC

\* ------------------------------------------------------------ bounds ----
\* Number of events the platform dispatches to the closure in one run.
MaxEvents == 4

\* --------------------------------------------------- program constants ----
InitialWidth == 800
InitialHeight == 600

\* ------------------------------------------------------- input domains ----
InitialSize == <<InitialWidth, InitialHeight>>

\* Sizes a Resized event may carry; a minimised window reports a zero size.
Sizes == {InitialSize, <<400, 300>>, <<0, 0>>, <<0, 300>>}

\* Inner size the platform suggests together with a new scale factor.
ScaledSize == <<1600, 1200>>

KeyCodes == {"Escape", "A"}
ElementStates == {"Pressed", "Released"}

\* winit::event::WindowEvent values the platform may deliver.  Variants whose
\* arms are empty in both matches and that never change the window's size are
\* represented by Moved.
ResizedEvents == {[kind |-> "Resized", size |-> s] : s \in Sizes}

KeyboardEvents ==
    {[kind |-> "KeyboardInput", key |-> k, state |-> st] :
        k \in KeyCodes, st \in ElementStates}

ScaleEvents ==
    {[kind |-> "ScaleFactorChanged", scale_factor |-> 2,
      new_inner_size |-> ScaledSize]}

PlainEvents == {[kind |-> "CloseRequested"], [kind |-> "Moved"]}

WindowEvents == ResizedEvents \cup KeyboardEvents \cup ScaleEvents \cup PlainEvents

\* Arms of the outer match that are empty (lines 204, 271-274, 282).
IdleEventKinds ==
    {"NewEvents", "DeviceEvent", "UserEvent", "Suspended", "Resumed",
     "RedrawEventsCleared"}

\* wgpu::SwapChain::get_current_frame: Ok, or one of the SwapChainError values.
AcquireResults == {"Ok", "Timeout", "Outdated", "Lost", "OutOfMemory"}

\* wgpu::Device::create_swap_chain with a zero extent is rejected by some
\* backends (a panic inside the call) and accepted by others.
CreateResults(desc) ==
    IF desc.width = 0 \/ desc.height = 0 THEN {"Ok", "Panic"} ELSE {"Ok"}

NoEvent == [kind |-> "None"]
NoFrame == [chain |-> 0, width |-> 0, height |-> 0, image |-> 0]
NoSubmission == [encoder |-> 0, target |-> 0, clear |-> "None", buffers |-> 0]

\* --------------------------------------------------------------- state ----
VARIABLES
    pc,            \* "start" | "init_failed" | "running" | "panicked" | "exited"
    exit_status,   \* "none" | "success" | "failure"
    control_flow,  \* winit ControlFlow seen by the closure: "Poll" | "Exit"
    window,        \* the winit window: inner_size, scale_factor, redraw requests
    engine,        \* struct Engine
    event,         \* the event most recently dispatched to the closure
    delivered,     \* window events dispatched so far, in order
    nevents        \* number of closure invocations

vars == <<pc, exit_status, control_flow, window, engine, event, delivered, nevents>>

\* ---------------------------------------------------------- Engine::new ----
\* The engine before construction: no field holds a usable value.
NoEngine ==
    [size |-> <<0, 0>>,
     swap_chain_desc |-> [usage |-> "None", format |-> "None",
                          width |-> 0, height |-> 0, present_mode |-> "None"],
     swap_chain |-> [id |-> 0, width |-> 0, height |-> 0, acquired |-> 0],
     device |-> [id |-> 0, chains_created |-> 0, chains_dropped |-> 0,
                 encoders |-> 0],
     surface |-> 0,
     queue |-> [id |-> 0, submitted |-> 0, last |-> NoSubmission],
     ui_instance |-> [input |-> <<>>, time_updates |-> 0, begun |-> 0,
                      ended |-> 0, input_at_begin |-> 0],
     ui_render_pass |-> [buffer_uploads |-> 0, texture_uploads |-> 0,
                         screen |-> <<0, 0>>, encoded |-> 0],
     scale_factor |-> 0,
     frame |-> NoFrame,
     acquire_result |-> "None",
     calls |-> <<>>,
     panicked |-> FALSE]

\* device.create_swap_chain(&surface, &desc): the chain is built for the
\* descriptor's extent at the time of the call; id is its creation serial.
device_create_swap_chain(device, desc) ==
    [id |-> device.chains_created + 1, width |-> desc.width,
     height |-> desc.height, acquired |-> 0]

Engine_new(win) ==
    LET size == win.inner_size
        swap_chain_desc ==
            [usage |-> "OUTPUT_ATTACHMENT", format |-> "Bgra8UnormSrgb",
             width |-> size[1], height |-> size[2], present_mode |-> "Fifo"]
        device == [id |-> 1, chains_created |-> 0, chains_dropped |-> 0,
                   encoders |-> 0]
    IN  [NoEngine EXCEPT
            !.size = size,
            !.surface = 1,
            !.device = [device EXCEPT !.chains_created = 1],
            !.queue = [id |-> 1, submitted |-> 0, last |-> NoSubmission],
            !.swap_chain_desc = swap_chain_desc,
            !.swap_chain = device_create_swap_chain(device, swap_chain_desc),
            !.scale_factor = win.scale_factor,
            !.calls = <<"request_adapter", "request_device", "create_swap_chain">>]

\* -------------------------------------------------------- Engine::resize ----
\* Variant of resize that rewrites the descriptor but keeps the old chain.
Engine_resize_KeepsChain(self, new_size, created) ==
    [self EXCEPT !.size = new_size,
                 !.swap_chain_desc.width = new_size[1],
                 !.swap_chain_desc.height = new_size[2]]

\* Variant of resize that builds a fresh descriptor instead of patching
\* the width and height of the stored one, and lets the old chain live on.
Engine_resize_FreshDescriptor(self, new_size, created) ==
    LET desc == [usage |-> "OUTPUT_ATTACHMENT", format |-> "Bgra8Unorm",
                 width |-> new_size[1], height |-> new_size[2],
                 present_mode |-> "Mailbox"]
        s1 == [self EXCEPT !.size = new_size,
                           !.swap_chain_desc = desc,
                           !.calls = Append(@, "create_swap_chain")]
    IN  IF created = "Ok"
        THEN [s1 EXCEPT
                !.swap_chain = device_create_swap_chain(self.device, desc),
                !.device.chains_created = @ + 1]
        ELSE [s1 EXCEPT !.panicked = TRUE]

Engine_resize(self, new_size, created) ==
    LET desc == [self.swap_chain_desc EXCEPT
                    !.width = new_size[1], !.height = new_size[2]]
        s1 == [self EXCEPT !.size = new_size,
                           !.swap_chain_desc = desc,
                           !.calls = Append(@, "create_swap_chain")]
    IN  IF created = "Ok"
        THEN [s1 EXCEPT
                !.swap_chain = device_create_swap_chain(self.device, desc),
                !.device.chains_created = @ + 1,
                !.device.chains_dropped = @ + 1]
        ELSE [s1 EXCEPT !.panicked = TRUE]

\* --------------------------------------------------------- Engine::input ----
\* egui_winit::Instance::input: the sink appends what it is handed.
ui_instance_input(ui, ev) == [ui EXCEPT !.input = Append(@, ev)]

\* Variant of input that hands close requests to nobody.
Engine_input_FiltersClose(self, ev, created) ==
    LET s1 == IF ev.kind = "CloseRequested"
              THEN [self EXCEPT !.calls = Append(@, "ui_input")]
              ELSE [self EXCEPT !.ui_instance = ui_instance_input(@, ev),
                                !.calls = Append(@, "ui_input")]
    IN  IF ev.kind = "Resized" THEN Engine_resize(s1, ev.size, created) ELSE s1

\* Variant of input that also resizes on ScaleFactorChanged.
Engine_input_ResizesOnScale(self, ev, created) ==
    LET s1 == [self EXCEPT !.ui_instance = ui_instance_input(@, ev),
                           !.calls = Append(@, "ui_input")]
    IN  IF ev.kind = "Resized" THEN Engine_resize(s1, ev.size, created)
        ELSE IF ev.kind = "ScaleFactorChanged"
        THEN Engine_resize(s1, ev.new_inner_size, created)
        ELSE s1

Engine_input(self, ev, created) ==
    LET s1 == [self EXCEPT !.ui_instance = ui_instance_input(@, ev),
                           !.calls = Append(@, "ui_input")]
    IN  IF ev.kind = "Resized" THEN Engine_resize(s1, ev.size, created) ELSE s1

\* ------------------------------------------------------- Engine::draw_ui ----
Engine_draw_ui(self) ==
    [self EXCEPT
        !.ui_instance.begun = @ + 1,
        !.ui_instance.input_at_begin = Len(self.ui_instance.input),
        !.ui_instance.ended = @ + 1,
        !.calls = @ \o <<"begin_frame", "widgets", "end_frame">>]

\* -------------------------------------------------------- Engine::update ----
\* Variant of update that composes the UI twice before uploading.
Engine_update_ComposesTwice(self) ==
    LET s1 == [self EXCEPT !.ui_instance.time_updates = @ + 1,
                           !.calls = Append(@, "update_time")]
        s2 == Engine_draw_ui(Engine_draw_ui(s1))
    IN  [s2 EXCEPT
            !.ui_render_pass.buffer_uploads = @ + 1,
            !.ui_render_pass.screen = s2.size,
            !.ui_render_pass.texture_uploads = @ + 1,
            !.calls = @ \o <<"upload_buffers", "upload_texture">>]

\* Variant of update that hands the size the window was built with to the
\* upload step.
Engine_update_InitialScreen(self) ==
    LET s1 == [self EXCEPT !.ui_instance.time_updates = @ + 1,
                           !.calls = Append(@, "update_time")]
        s2 == Engine_draw_ui(s1)
    IN  [s2 EXCEPT
            !.ui_render_pass.buffer_uploads = @ + 1,
            !.ui_render_pass.screen = InitialSize,
            !.ui_render_pass.texture_uploads = @ + 1,
            !.calls = @ \o <<"upload_buffers", "upload_texture">>]

Engine_update(self) ==
    LET s1 == [self EXCEPT !.ui_instance.time_updates = @ + 1,
                           !.calls = Append(@, "update_time")]
        s2 == Engine_draw_ui(s1)
    IN  [s2 EXCEPT
            !.ui_render_pass.buffer_uploads = @ + 1,
            !.ui_render_pass.screen = s2.size,
            !.ui_render_pass.texture_uploads = @ + 1,
            !.calls = @ \o <<"upload_buffers", "upload_texture">>]

\* -------------------------------------------------------- Engine::render ----
\* Variant of render that clears to a colour chosen from the surface size.
Engine_render_ClearBySize(self, acquired) ==
    LET s1 == [self EXCEPT !.acquire_result = acquired,
                           !.calls = Append(@, "get_current_frame")]
        frame == [chain |-> self.swap_chain.id,
                  width |-> self.swap_chain.width,
                  height |-> self.swap_chain.height,
                  image |-> self.swap_chain.acquired + 1]
        encoder == self.device.encoders + 1
    IN  IF acquired # "Ok"
        THEN [s1 EXCEPT !.panicked = TRUE]
        ELSE [s1 EXCEPT
                !.frame = frame,
                !.swap_chain.acquired = @ + 1,
                !.device.encoders = encoder,
                !.ui_render_pass.encoded = @ + 1,
                !.queue.submitted = @ + 1,
                !.queue.last = [encoder |-> encoder, target |-> frame,
                                clear |-> IF self.size = InitialSize
                                          THEN "BLUE" ELSE "BLACK",
                                buffers |-> 1],
                !.calls = @ \o <<"create_command_encoder", "encode", "submit">>]

Engine_render(self, acquired) ==
    LET s1 == [self EXCEPT !.acquire_result = acquired,
                           !.calls = Append(@, "get_current_frame")]
        frame == [chain |-> self.swap_chain.id,
                  width |-> self.swap_chain.width,
                  height |-> self.swap_chain.height,
                  image |-> self.swap_chain.acquired + 1]
        encoder == self.device.encoders + 1
    IN  IF acquired # "Ok"
        THEN [s1 EXCEPT !.panicked = TRUE]
        ELSE [s1 EXCEPT
                !.frame = frame,
                !.swap_chain.acquired = @ + 1,
                !.device.encoders = encoder,
                !.ui_render_pass.encoded = @ + 1,
                !.queue.submitted = @ + 1,
                !.queue.last = [encoder |-> encoder, target |-> frame,
                                clear |-> "BLUE", buffers |-> 1],
                !.calls = @ \o <<"create_command_encoder", "encode", "submit">>]

\* ------------------------------------------------------------------ main ----
\* Lines 191-196: the window is built with an 800x600 physical inner size.
Window_new ==
    [inner_size |-> InitialSize, scale_factor |-> 1, redraw_requests |-> 0,
     redraw_pending |-> FALSE]

Init ==
    /\ pc = "start"
    /\ exit_status = "none"
    /\ control_flow = "Poll"
    /\ window = Window_new
    /\ engine = NoEngine
    /\ event = NoEvent
    /\ delivered = <<>>
    /\ nevents = 0

\* Variant of the start-up that carries on when request_device fails.
Initialize_IgnoresDeviceError ==
    /\ pc = "start"
    /\ \E adapter \in {"Some", "None"}, dev \in {"Ok", "Err"} :
          IF adapter = "None"
          THEN /\ pc' = "init_failed"
               /\ exit_status' = "failure"
               /\ engine' = [engine EXCEPT !.calls = <<"request_adapter">>,
                                           !.panicked = TRUE]
          ELSE /\ pc' = (IF dev = "Err" THEN "init_failed" ELSE "running")
               /\ exit_status' = (IF dev = "Err" THEN "failure" ELSE exit_status)
               /\ engine' = Engine_new(window)
    /\ UNCHANGED <<control_flow, window, event, delivered, nevents>>

\* Line 198: block_on(Engine::new(&window)).  request_adapter and
\* request_device are unwrapped; a None / Err there panics before the swap
\* chain is created and before event_loop.run is reached.
Initialize ==
    /\ pc = "start"
    /\ \E adapter \in {"Some", "None"}, dev \in {"Ok", "Err"} :
          IF adapter = "None"
          THEN /\ pc' = "init_failed"
               /\ exit_status' = "failure"
               /\ engine' = [engine EXCEPT !.calls = <<"request_adapter">>,
                                           !.panicked = TRUE]
          ELSE IF dev = "Err"
          THEN /\ pc' = "init_failed"
               /\ exit_status' = "failure"
               /\ engine' = [engine EXCEPT
                                !.calls = <<"request_adapter", "request_device">>,
                                !.panicked = TRUE]
          ELSE /\ pc' = "running"
               /\ exit_status' = exit_status
               /\ engine' = Engine_new(window)
    /\ UNCHANGED <<control_flow, window, event, delivered, nevents>>

\* The closure is entered with a fresh record of the calls it makes.
Entered(self) == [self EXCEPT !.calls = <<>>]

\* Variant of the inner match that ignores the key's ElementState.
ControlFlowAfter_AnyEscape(cf, ev) ==
    IF ev.kind = "CloseRequested" THEN "Exit"
    ELSE IF ev.kind = "KeyboardInput" /\ ev.key = "Escape" THEN "Exit"
    ELSE cf

\* Inner match of the WindowEvent arm (lines 207-269).
ControlFlowAfter(cf, ev) ==
    IF ev.kind = "CloseRequested" THEN "Exit"
    ELSE IF ev.kind = "KeyboardInput" /\ ev.key = "Escape" /\ ev.state = "Pressed"
    THEN "Exit"
    ELSE cf

\* What the platform does to the window around the delivery of a window
\* event: Resized reports the size the window now has; after the closure
\* returns from ScaleFactorChanged the window takes new_inner_size.
WindowAfter(win, ev) ==
    IF ev.kind = "Resized" THEN [win EXCEPT !.inner_size = ev.size]
    ELSE IF ev.kind = "ScaleFactorChanged"
    THEN [win EXCEPT !.scale_factor = ev.scale_factor,
                     !.inner_size = ev.new_inner_size]
    ELSE win

\* A panic inside the closure unwinds out of event_loop.run.
Finish(e) ==
    /\ engine' = e
    /\ pc' = IF e.panicked THEN "panicked" ELSE pc
    /\ exit_status' = IF e.panicked THEN "failure" ELSE exit_status

\* Lines 205-270.
OnWindowEvent ==
    /\ pc = "running"
    /\ nevents < MaxEvents
    /\ \E ev \in WindowEvents :
         \E created \in (IF ev.kind = "Resized"
                         THEN CreateResults([width |-> ev.size[1],
                                             height |-> ev.size[2]])
                         ELSE {"Ok"}) :
            LET e == Engine_input(Entered(engine), ev, created)
            IN  /\ Finish(e)
                /\ control_flow' = IF e.panicked THEN control_flow
                                   ELSE ControlFlowAfter(control_flow, ev)
                /\ window' = WindowAfter(window, ev)
                /\ event' = ev
                /\ delivered' = Append(delivered, ev)
    /\ nevents' = nevents + 1

\* Lines 204, 271-274, 282.
OnIdleEvent ==
    /\ pc = "running"
    /\ nevents < MaxEvents
    /\ \E k \in IdleEventKinds : event' = [kind |-> k]
    /\ engine' = Entered(engine)
    /\ nevents' = nevents + 1
    /\ UNCHANGED <<pc, exit_status, control_flow, window, delivered>>

\* Lines 275-277.
OnMainEventsCleared ==
    /\ pc = "running"
    /\ nevents < MaxEvents
    /\ event' = [kind |-> "MainEventsCleared"]
    /\ engine' = Entered(engine)
    /\ window' = [window EXCEPT !.redraw_requests = @ + 1,
                                !.redraw_pending = TRUE]
    /\ nevents' = nevents + 1
    /\ UNCHANGED <<pc, exit_status, control_flow, delivered>>

\* Lines 278-281.  RedrawRequested is sent for window.request_redraw() and
\* also whenever the OS asks for a repaint.
Redraw(self, acquired) ==
    LET s1 == Engine_update(self)
    IN  Engine_render(s1, acquired)

OnRedrawRequested ==
    /\ pc = "running"
    /\ nevents < MaxEvents
    /\ \E acquired \in AcquireResults :
          Finish(Redraw(Entered(engine), acquired))
    /\ event' = [kind |-> "RedrawRequested"]
    /\ window' = [window EXCEPT !.redraw_pending = FALSE]
    /\ nevents' = nevents + 1
    /\ UNCHANGED <<control_flow, delivered>>

\* Line 283: once the closure has set ControlFlow::Exit the loop finishes the
\* iteration it is in, dispatches LoopDestroyed and ends the process.
OnLoopDestroyed ==
    /\ pc = "running"
    /\ control_flow = "Exit"
    /\ event' = [kind |-> "LoopDestroyed"]
    /\ engine' = Entered(engine)
    /\ pc' = "exited"
    /\ exit_status' = "success"
    /\ nevents' = nevents + 1
    /\ UNCHANGED <<control_flow, window, delivered>>

Next ==
    \/ Initialize
    \/ OnWindowEvent
    \/ OnIdleEvent
    \/ OnMainEventsCleared
    \/ OnRedrawRequested
    \/ OnLoopDestroyed

Spec == Init /\ [][Next]_vars

\* ------------------------------------------------------------- helpers ----
Constructed == pc \in {"running", "panicked", "exited"}

TypeOK ==
    /\ pc \in {"start", "init_failed", "running", "panicked", "exited"}
    /\ exit_status \in {"none", "success", "failure"}
    /\ control_flow \in {"Poll", "Exit"}
    /\ nevents \in 0..(MaxEvents + 1)
    /\ Len(delivered) <= nevents

\* Size carried by the most recently delivered Resized event, or the size
\* the window was built with when none was delivered.
RECURSIVE LastResized(_)
LastResized(log) ==
    IF log = <<>> THEN InitialSize
    ELSE IF log[Len(log)].kind = "Resized" THEN log[Len(log)].size
    ELSE LastResized(SubSeq(log, 1, Len(log) - 1))

NumResized(log) == Cardinality({i \in 1..Len(log) : log[i].kind = "Resized"})

Count(seq, x) == Cardinality({i \in 1..Len(seq) : seq[i] = x})

ZeroSize(s) == s[1] = 0 \/ s[2] = 0

\* The closure has just returned (or unwound) from a RedrawRequested event.
AfterRedraw == event.kind = "RedrawRequested"

FrameRendered == AfterRedraw /\ engine.acquire_result = "Ok"

UpdateCalls ==
    <<"update_time", "begin_frame", "widgets", "end_frame",
      "upload_buffers", "upload_texture">>

RenderCalls ==
    <<"get_current_frame", "create_command_encoder", "encode", "submit">>

\* ---------------------------------------------------------------- C1 ----
\* C1: at every frame acquisition the live swap chain is the one created
\* from the current descriptor, the descriptor's width and height are those
\* of the most recently delivered Resized event (800x600 if there was none),
\* and every Resized event has re-created the chain, so the chain used is
\* the newest one and never one built for an earlier size.
C1_AcquireUsesCurrentChain ==
    AfterRedraw =>
        /\ engine.swap_chain.width = engine.swap_chain_desc.width
        /\ engine.swap_chain.height = engine.swap_chain_desc.height
        /\ <<engine.swap_chain_desc.width, engine.swap_chain_desc.height>>
              = LastResized(delivered)
        /\ engine.swap_chain.id = 1 + NumResized(delivered)
        /\ engine.swap_chain.id = engine.device.chains_created
        /\ engine.acquire_result = "Ok" =>
              /\ engine.frame.chain = engine.swap_chain.id
              /\ <<engine.frame.width, engine.frame.height>>
                    = LastResized(delivered)

\* A frame is acquired at 400x300 after two Resized events, the first of
\* which carried another size.
C1_Witness ==
    /\ FrameRendered
    /\ NumResized(delivered) >= 2
    /\ \E i \in 1..Len(delivered) :
          delivered[i].kind = "Resized" /\ delivered[i].size = InitialSize
    /\ LastResized(delivered) = <<400, 300>>
    /\ engine.frame.width = 400 /\ engine.frame.height = 300

\* ---------------------------------------------------------------- C2 ----
\* C2: in every reachable state the presentation descriptor's width and
\* height are both greater than 0, also after a Resized event that carries a
\* size with a zero dimension.
C2_DescriptorPositive ==
    Constructed =>
        /\ engine.swap_chain_desc.width > 0
        /\ engine.swap_chain_desc.height > 0

\* ---------------------------------------------------------------- C3 ----
\* C3: with a window size that has a zero width or height, a RedrawRequested
\* event does not crash the program: frame acquisition, encoding and
\* submission are skipped and the loop keeps running.
C3_ZeroSizeSkipsRender ==
    (AfterRedraw /\ ZeroSize(window.inner_size)) =>
        /\ pc = "running"
        /\ \A c \in 1..Len(RenderCalls) : Count(engine.calls, RenderCalls[c]) = 0

\* ---------------------------------------------------------------- C4 ----
\* C4: a failed frame acquisition in the render step is recoverable: the
\* loop keeps running (the chain is re-created and acquisition retried on the
\* next iteration); a first failure is never fatal.
C4_AcquireFailureRecoverable ==
    (AfterRedraw /\ engine.acquire_result \notin {"Ok", "None"}) =>
        /\ pc = "running"
        /\ exit_status = "none"

\* ---------------------------------------------------------------- C5 ----
\* C5: once a CloseRequested event has been handled the engine is
\* terminated for good: whatever is dispatched afterwards, no further update,
\* render or swap-chain re-creation happens, and the loop exits with success.
CloseHandled ==
    \E i \in 1..Len(delivered) : delivered[i].kind = "CloseRequested"

C5_TerminatedIsFinal ==
    [][CloseHandled =>
          /\ engine'.ui_instance.time_updates = engine.ui_instance.time_updates
          /\ engine'.ui_instance.begun = engine.ui_instance.begun
          /\ engine'.ui_render_pass = engine.ui_render_pass
          /\ engine'.device = engine.device
          /\ engine'.queue = engine.queue
          /\ engine'.swap_chain = engine.swap_chain
          /\ pc' \in {"running", "exited"}
          /\ pc' = "exited" => exit_status' = "success"]_vars

\* ---------------------------------------------------------------- C6 ----
\* C6: a KeyboardInput event terminates the loop if and only if its key is
\* Escape and its state is Pressed; an Escape press does what a close event
\* does (control flow becomes Exit, the engine's size, descriptor and chain
\* stay as they were), every other key event leaves the loop running.
Dispatched(kind) == nevents' = nevents + 1 /\ event'.kind = kind

EngineUntouched ==
    [engine' EXCEPT !.ui_instance = engine.ui_instance, !.calls = <<>>]
        = [engine EXCEPT !.calls = <<>>]

C6_OnlyEscapePressTerminates ==
    [][/\ (Dispatched("KeyboardInput") /\ control_flow = "Poll") =>
             /\ (control_flow' = "Exit")
                   <=> (event'.key = "Escape" /\ event'.state = "Pressed")
             /\ pc' = "running"
             /\ EngineUntouched
       /\ (Dispatched("CloseRequested") /\ control_flow = "Poll") =>
             /\ control_flow' = "Exit"
             /\ pc' = "running"
             /\ EngineUntouched]_vars

\* An Escape release was delivered and left the loop running; the Escape
\* press that followed set Exit.
C6_Witness ==
    /\ delivered = <<[kind |-> "KeyboardInput", key |-> "Escape", state |-> "Released"],
                     [kind |-> "KeyboardInput", key |-> "A", state |-> "Pressed"],
                     [kind |-> "KeyboardInput", key |-> "Escape", state |-> "Pressed"]>>
    /\ event = delivered[3]
    /\ control_flow = "Exit"
    /\ pc = "running"

C8_EveryWindowEventForwarded ==
    /\ engine.ui_instance.input = delivered
    /\ event \in WindowEvents =>
          /\ engine.calls # <<>>
          /\ engine.calls[1] = "ui_input"
          /\ Count(engine.calls, "ui_input") = 1
    /\ AfterRedraw => engine.ui_instance.input_at_begin = Len(delivered)

\* A composition that follows a Resized, a CloseRequested and an Escape
\* press has seen all three.
C8_Witness ==
    /\ AfterRedraw
    /\ Len(delivered) = 3
    /\ \E i \in 1..3 : delivered[i].kind = "Resized"
    /\ \E i \in 1..3 : delivered[i].kind = "CloseRequested"
    /\ \E i \in 1..3 : delivered[i].kind = "KeyboardInput"
                          /\ delivered[i].key = "Escape"
    /\ engine.ui_instance.input_at_begin = 3

\* ---------------------------------------------------------------- C9 ----
\* C9: at every frame acquisition the engine's recorded size equals the
\* window's current physical size, whether that size was changed by a Resized
\* event or by a ScaleFactorChanged event carrying a new inner size.
C9_SizeTracksWindow ==
    AfterRedraw => engine.size = window.inner_size

\* --------------------------------------------------------------- C10 ----
\* C10: every rendered frame submits exactly one command buffer, recorded in
\* one encoder scope against the image acquired for that frame, and clears
\* the target to the same fixed colour whatever events came before.
C10_OneSubmissionPerFrame ==
    /\ FrameRendered =>
          /\ engine.queue.last.buffers = 1
          /\ engine.queue.last.target = engine.frame
          /\ engine.queue.last.encoder = engine.device.encoders
          /\ engine.queue.last.clear = "BLUE"
          /\ engine.frame.chain = engine.swap_chain.id
          /\ engine.frame.image = engine.swap_chain.acquired
          /\ Count(engine.calls, "submit") = 1
          /\ Count(engine.calls, "create_command_encoder") = 1
    /\ Constructed =>
          /\ engine.queue.submitted = engine.device.encoders
          /\ engine.queue.submitted > 0 => engine.queue.last.clear = "BLUE"
          /\ engine.queue.submitted = 0 => engine.queue.last = NoSubmission

\* A frame rendered after a resize and a key event.
C10_Witness ==
    /\ FrameRendered
    /\ engine.queue.submitted = 2
    /\ NumResized(delivered) >= 1
    /\ engine.queue.last.clear = "BLUE"
    /\ engine.queue.last.encoder = 2

\* --------------------------------------------------------------- C11 ----
\* C11: initialization is all-or-nothing and strictly ordered: adapter,
\* then device and queue, then swap chain, then the event loop; when the
\* adapter or the device request fails the process ends there with a failure
\* status and no swap chain is created, no event is handled and no frame is
\* rendered.
InitCalls == <<"request_adapter", "request_device", "create_swap_chain">>

C11_InitAllOrNothing ==
    /\ pc = "start" => engine = NoEngine /\ nevents = 0
    /\ pc = "init_failed" =>
          /\ exit_status = "failure"
          /\ engine.calls \in {SubSeq(InitCalls, 1, 1), SubSeq(InitCalls, 1, 2)}
          /\ engine.device.chains_created = 0
          /\ engine.swap_chain = NoEngine.swap_chain
          /\ engine.swap_chain_desc = NoEngine.swap_chain_desc
          /\ nevents = 0 /\ delivered = <<>> /\ event = NoEvent
          /\ engine.ui_instance = NoEngine.ui_instance
          /\ engine.queue.submitted = 0
          /\ engine.frame = NoFrame
    /\ (pc = "running" /\ nevents = 0) =>
          /\ engine.calls = InitCalls
          /\ engine.device.chains_created = 1
          /\ engine.swap_chain.id = 1
          /\ exit_status = "none"
    /\ (nevents > 0 \/ engine.queue.submitted > 0) => Constructed

\* The adapter was found and the device request failed.
C11_Witness ==
    /\ pc = "init_failed"
    /\ engine.calls = <<"request_adapter", "request_device">>
    /\ exit_status = "failure"

\* --------------------------------------------------------------- C12 ----
\* C12: while the loop is not terminated every idle cycle
\* (MainEventsCleared) issues exactly one redraw request and no other event
\* kind issues one; the RedrawRequested event delivered for a request is
\* followed by one update and one submitted frame.
C12_RequestedRedrawRendersFrame ==
    [][/\ Dispatched("MainEventsCleared") =>
             /\ window'.redraw_requests = window.redraw_requests + 1
             /\ window'.redraw_pending
       /\ ~Dispatched("MainEventsCleared") =>
             window'.redraw_requests = window.redraw_requests
       /\ (window.redraw_pending /\ Dispatched("RedrawRequested")) =>
             /\ engine'.ui_instance.time_updates
                   = engine.ui_instance.time_updates + 1
             /\ engine'.ui_instance.begun = engine.ui_instance.begun + 1
             /\ engine'.queue.submitted = engine.queue.submitted + 1]_vars

\* --------------------------------------------------------------- C13 ----
\* C13: events without a handler are no-ops on engine state: every event
\* other than Resized leaves the engine's size, descriptor, swap chain and
\* stored scale factor as they were; every event other than CloseRequested
\* and an Escape press leaves the control flow as it was; and no event whose
\* arms are empty raises an error or touches anything but the UI input sink.
SameChain(a, b) == a.id = b.id /\ a.width = b.width /\ a.height = b.height

Terminating(ev) ==
    \/ ev.kind = "CloseRequested"
    \/ ev.kind = "KeyboardInput" /\ ev.key = "Escape" /\ ev.state = "Pressed"

EmptyArms(ev) ==
    \/ ev.kind \in IdleEventKinds \cup {"LoopDestroyed"}
    \/ ev \in WindowEvents /\ ev.kind # "Resized" /\ ~Terminating(ev)

C13_UnhandledEventsAreNoOps ==
    [][(nevents' = nevents + 1) =>
          /\ event'.kind # "Resized" =>
                /\ engine'.size = engine.size
                /\ engine'.swap_chain_desc = engine.swap_chain_desc
                /\ SameChain(engine'.swap_chain, engine.swap_chain)
                /\ engine'.device.chains_created = engine.device.chains_created
                /\ engine'.scale_factor = engine.scale_factor
          /\ ~Terminating(event') => control_flow' = control_flow
          /\ EmptyArms(event') =>
                /\ EngineUntouched
                /\ ~engine'.panicked
                /\ pc' # "panicked"
                /\ exit_status' # "failure"
                /\ event'.kind # "LoopDestroyed" => pc' = pc]_vars

\* A ScaleFactorChanged event gave the window a new inner size and scale
\* factor; the engine still has the values it was built with.
C13_Witness ==
    /\ event.kind = "ScaleFactorChanged"
    /\ window.inner_size = ScaledSize
    /\ window.scale_factor = 2
    /\ engine.size = InitialSize
    /\ engine.scale_factor = 1
    /\ engine.swap_chain.id = 1
    /\ control_flow = "Poll"
    /\ pc = "running"

\* --------------------------------------------------------------- C14 ----
\* C14: Engine::resize changes only the recorded size, the descriptor's
\* width and height, and the swap chain, which is replaced by a new one while
\* the old one is dropped; the descriptor's usage, colour format and present
\* mode, and the surface, device and queue, are after any sequence of resizes
\* what they were after initialization.
C14_ResizeTouchesOnlySizeAndChain ==
    [][/\ Constructed' =>
             /\ engine'.swap_chain_desc.usage = "OUTPUT_ATTACHMENT"
             /\ engine'.swap_chain_desc.format = "Bgra8UnormSrgb"
             /\ engine'.swap_chain_desc.present_mode = "Fifo"
             /\ engine'.surface = 1
             /\ engine'.device.id = 1
             /\ engine'.queue.id = 1
             /\ pc' = "running" =>
                   engine'.device.chains_created
                      = engine'.device.chains_dropped + 1
       /\ Dispatched("Resized") =>
             /\ engine'.size = event'.size
             /\ engine'.swap_chain_desc
                   = [engine.swap_chain_desc EXCEPT !.width = event'.size[1],
                                                    !.height = event'.size[2]]
             /\ engine'.queue = engine.queue
             /\ engine'.surface = engine.surface
             /\ engine'.device.id = engine.device.id
             /\ engine'.device.encoders = engine.device.encoders
             /\ engine'.ui_render_pass = engine.ui_render_pass
             /\ engine'.scale_factor = engine.scale_factor
             /\ engine'.frame = engine.frame
             /\ pc' = "running" =>
                   /\ engine'.swap_chain.id = engine.swap_chain.id + 1
                   /\ engine'.swap_chain.width = event'.size[1]
                   /\ engine'.swap_chain.height = event'.size[2]
                   /\ engine'.device.chains_dropped
                         = engine.device.chains_dropped + 1]_vars

\* Three resizes went through; the third chain replaced the second.
C14_Witness ==
    /\ event.kind = "Resized"
    /\ NumResized(delivered) = 3
    /\ engine.swap_chain.id = 4
    /\ engine.device.chains_dropped = 3
    /\ engine.size = <<400, 300>>
    /\ engine.swap_chain_desc.present_mode = "Fifo"
    /\ pc = "running"

\* --------------------------------------------------------------- C15 ----
\* C15: in every frame the screen dimensions handed to the upload step
\* equal the width and height of the descriptor of the chain the frame's
\* image is acquired from, whatever Resized events came before the frame.
C15_UploadScreenMatchesChain ==
    AfterRedraw =>
        /\ engine.ui_render_pass.screen
              = <<engine.swap_chain_desc.width, engine.swap_chain_desc.height>>
        /\ engine.ui_render_pass.screen
              = <<engine.swap_chain.width, engine.swap_chain.height>>
        /\ engine.acquire_result = "Ok" =>
              engine.ui_render_pass.screen
                 = <<engine.frame.width, engine.frame.height>>

\* A frame uploaded and rendered at 400x300 after a resize away from the
\* initial size.
C15_Witness ==
    /\ FrameRendered
    /\ NumResized(delivered) >= 1
    /\ engine.ui_render_pass.screen = <<400, 300>>
    /\ engine.frame.width = 400 /\ engine.frame.height = 300
====
